---------------------------- MODULE Spec2Model ----------------------------
(***************************************************************************)
(* A model of node-manatee's client (manatee.js): the shard-topology       *)
(* client `Manatee' (called ShardClient in the specification), its         *)
(* per-path watcher `_watchNode' (NodeWatcher), the ZooKeeper nodes it     *)
(* observes, and the pure conversions from election node names and         *)
(* cluster-state documents to the published list of peer URLs.             *)
(*                                                                         *)
(* Strings are sequences of tokens.  A token is a chunk of characters      *)
(* holding neither '-' nor ':'; "-" and ":" are tokens of their own and    *)
(* the digits of a sequence number are one token each.  A JavaScript value *)
(* that may be null is Null (the empty tuple) or Some(v) (a 1-tuple).      *)
(***************************************************************************)
EXTENDS Integers, Sequences, FiniteSets, TLC

VARIABLES
    \* ---- Manatee (ShardClient) fields, src/unnamed/part_000:94-99
    zk,             \* self._zk: 0 (null) or the number of the current handle
    inited,         \* self._inited
    closed,         \* self._closed
    clusterState,   \* self._clusterState: Null or Some(parsed document)
    actives,        \* self._actives: Null or Some(list of election names)
    urls,           \* self._urls
    emitReadyCalled,\* whether the once-wrapped emitReady has run
    tickQ,          \* callbacks queued with process.nextTick, oldest first
    \* ---- what an observer of the client has seen
    emitted,        \* the events emitted by the last step that called a
                    \* handler or emitted an event, in order
    topoLog,        \* the last two `topology' payloads, oldest first
    readyCount,     \* number of `ready' emissions so far
    errorCount,     \* number of `error' emissions so far
    last,           \* the handler that step called, and its argument
    mpr,            \* the ManateePrimaryResolver listening to the client
    \* ---- the ZooKeeper handles zkClient.createClient has returned
    handles,        \* per handle: its connection and the once() guards on it
    \* ---- the _watchNode closures, one per handle and path
    watchers,
    \* ---- the ZooKeeper ensemble
    znodes,         \* per path: Null (no node) or Some(node)
    zkOps           \* number of changes made to the ensemble so far

clientVars ==
    <<zk, inited, closed, clusterState, actives, urls, emitReadyCalled, tickQ>>
obsVars == <<emitted, topoLog, readyCount, errorCount, last, mpr>>
zkVars == <<handles, watchers, znodes, zkOps>>
vars == <<clientVars, obsVars, zkVars>>

----------------------------------------------------------------------------
(* Bounds of the model.                                                    *)

\* longest children list handed to handleActive by the handler-level
\* specification
MaxChildren == 3

\* number of ZooKeeper handles a client creates: one, and one per reset
MaxSessions == 2

\* number of changes (create, setData, delete, child added or removed) the
\* environment makes to the ZooKeeper nodes, transient errors included
MaxZkOps == 2

\* the same, in the specification of one session and its two watchers
MaxWatchOps == 3

\* number of `error' events the handlers are made to emit
MaxErrors == 2

\* number of keys the resolver draws, and of Manatee objects it creates
MaxKeys == 3
MaxStarts == 2

----------------------------------------------------------------------------
(* JavaScript values.                                                      *)

Null == <<>>
Some(v) == <<v>>
IsNull(o) == o = <<>>
Val(o) == o[1]

Min(a, b) == IF a <= b THEN a ELSE b

\* the last n elements of s
LastN(s, n) == SubSeq(s, Len(s) - Min(n, Len(s)) + 1, Len(s))

----------------------------------------------------------------------------
(* Strings.                                                                *)

Digits == <<"0", "1", "2", "3", "4", "5", "6", "7", "8", "9">>

IsDigit(t) == \E i \in 1..10 : Digits[i] = t

DigitVal(t) == (CHOOSE i \in 1..10 : Digits[i] = t) - 1

\* String.prototype.lastIndexOf, 1-based; 0 when t does not occur (-1 in JS)
LastIndexOf(s, t) ==
    IF \E i \in 1..Len(s) : s[i] = t
    THEN CHOOSE i \in 1..Len(s) :
            s[i] = t /\ \A j \in (i + 1)..Len(s) : s[j] # t
    ELSE 0

\* String.prototype.indexOf, 1-based; 0 when t does not occur
IndexOf(s, t) ==
    IF \E i \in 1..Len(s) : s[i] = t
    THEN CHOOSE i \in 1..Len(s) : s[i] = t /\ \A j \in 1..(i - 1) : s[j] # t
    ELSE 0

\* String.prototype.substring(from) with a 0-based `from' = from1 - 1
Substring(s, from1) == SubSeq(s, from1, Len(s))

\* String.prototype.split(sep): the fields between the occurrences of sep
RECURSIVE Split(_, _)
Split(s, sep) ==
    LET i == IndexOf(s, sep)
    IN  IF i = 0 THEN <<s>>
        ELSE <<SubSeq(s, 1, i - 1)>> \o Split(SubSeq(s, i + 1, Len(s)), sep)

\* not-a-number, the result of parseInt on a string with no leading digit
NaN == -1

\* parseInt(s, 10) of an unsigned string: the value of the leading digits
RECURSIVE ParseDigits(_, _)
ParseDigits(s, acc) ==
    IF s = <<>> \/ ~IsDigit(Head(s)) THEN acc
    ELSE ParseDigits(Tail(s), 10 * acc + DigitVal(Head(s)))

parseInt(s) ==
    IF s = <<>> \/ ~IsDigit(Head(s)) THEN NaN ELSE ParseDigits(s, 0)

----------------------------------------------------------------------------
(* Election node names and peer URLs (PeerEncoder).                        *)

\* the test helpers id(ip) + <sequence number> and u(ip)
id(ip, seq) == <<ip, ":", "5432", ":", "12345", "-">> \o seq
u(ip) == <<"tcp://", ip, ":", "5432">>

\* a faulty variant of compare: the sequence numbers compared as strings of
\* equal rank, i.e. by their first digit only
compareFirstDigit(a, b) ==
    LET tailA == Substring(a, LastIndexOf(a, "-") + 1)
        tailB == Substring(b, LastIndexOf(b, "-") + 1)
    IN  parseInt(SubSeq(tailA, 1, 1)) - parseInt(SubSeq(tailB, 1, 1))

\* childrenToUrls.compare: the difference of the integers after the last '-'
compare(a, b) ==
    LET seqA == parseInt(Substring(a, LastIndexOf(a, "-") + 1))
        seqB == parseInt(Substring(b, LastIndexOf(b, "-") + 1))
    IN  IF seqA = NaN \/ seqB = NaN THEN 0 ELSE seqA - seqB

\* Array.prototype.sort(compare) on a short array: insertion sort, each
\* element moved left past the elements that compare greater
RECURSIVE Insert(_, _)
Insert(t, x) ==
    IF t = <<>> THEN <<x>>
    ELSE IF compare(t[Len(t)], x) > 0
         THEN Append(Insert(SubSeq(t, 1, Len(t) - 1), x), t[Len(t)])
         ELSE Append(t, x)

RECURSIVE sort(_)
sort(s) ==
    IF s = <<>> THEN <<>>
    ELSE Insert(sort(SubSeq(s, 1, Len(s) - 1)), s[Len(s)])

\* childrenToUrls.transformPgUrl
transformPgUrl(zkNode) ==
    LET encodedString == Split(zkNode, "-")[1]
        data == Split(encodedString, ":")
    IN  IF Len(data) = 1
        THEN <<"tcp://">> \o data[1]
        ELSE <<"tcp://">> \o data[1] \o <<":">> \o data[2]

\* Manatee.prototype._childrenToUrls; the array is sorted in place, so the
\* caller's array is sort(children) afterwards
childrenToUrls(children) ==
    LET sorted == sort(children)
    IN  [i \in 1..Len(sorted) |-> transformPgUrl(sorted[i])]

----------------------------------------------------------------------------
(* Cluster-state documents (TopologyReducer).                              *)

\* the test helper stateFrom(ips), as the object JSON.parse gives back
stateFrom(ips) ==
    [primary |-> IF Len(ips) >= 1 THEN Some([pgUrl |-> u(ips[1])]) ELSE Null,
     sync    |-> IF Len(ips) >= 2 THEN Some([pgUrl |-> u(ips[2])]) ELSE Null,
     async   |-> Some([i \in 1..(IF Len(ips) > 2 THEN Len(ips) - 2 ELSE 0)
                        |-> [pgUrl |-> u(ips[i + 2])]])]

ip1 == "19.19.19.19"
ip2 == "20.20.20.20"
ip3 == "21.21.21.21"

\* The contents a state node may hold, as opaque byte strings, and what
\* JSON.parse makes of each: a document, or a SyntaxError.
StateData == {"B12", "B0", "Bsync"}

\* More contents: a primary alone, two asyncs out of address order, and two
\* byte strings that are not JSON.
DocData == StateData \cup {"B3", "B2131", "BAD", "BAD2"}

JSONParse(data) ==
    CASE data = "B12"   -> [ok |-> TRUE, value |-> stateFrom(<<ip1, ip2>>)]
      [] data = "B31"   -> [ok |-> TRUE, value |-> stateFrom(<<ip3, ip1, ip2>>)]
      [] data = "B3"    -> [ok |-> TRUE, value |->
                               [primary |-> Some([pgUrl |-> u(ip3)]),
                                sync |-> Null, async |-> Null]]
      [] data = "B2131" ->
            [ok |-> TRUE, value |-> stateFrom(<<ip2, ip1, ip3, ip1>>)]
      [] data = "B0"    -> [ok |-> TRUE, value |-> stateFrom(<<>>)]
      [] data = "Bsync" -> [ok |-> TRUE, value |->
                               [primary |-> Null,
                                sync |-> Some([pgUrl |-> u(ip2)]),
                                async |-> Some(<<[pgUrl |-> u(ip1)]>>)]]
      [] OTHER          -> [ok |-> FALSE, value |-> stateFrom(<<>>)]

\* a faulty variant of clusterStateToUrls: the sync ahead of the primary
clusterStateToUrlsSyncFirst(cs) ==
    (IF IsNull(cs.sync) THEN <<>> ELSE <<Val(cs.sync).pgUrl>>)
    \o (IF IsNull(cs.primary) THEN <<>> ELSE <<Val(cs.primary).pgUrl>>)
    \o (IF IsNull(cs.async) THEN <<>>
        ELSE [i \in 1..Len(Val(cs.async)) |-> Val(cs.async)[i].pgUrl])

\* Manatee.prototype._clusterStateToUrls
clusterStateToUrls(cs) ==
    (IF IsNull(cs.primary) THEN <<>> ELSE <<Val(cs.primary).pgUrl>>)
    \o (IF IsNull(cs.sync) THEN <<>> ELSE <<Val(cs.sync).pgUrl>>)
    \o (IF IsNull(cs.async) THEN <<>>
        ELSE [i \in 1..Len(Val(cs.async)) |-> Val(cs.async)[i].pgUrl])

----------------------------------------------------------------------------
(* The Manatee object as one value, so that the calls a callback makes      *)
(* compose: each method below maps the object before the call to the       *)
(* object after it, `emitted' collecting the events it emits.              *)

\* a NodeView, the value of _watchNode.getRes()
View(data, version, children) ==
    [data |-> data, version |-> version, children |-> children]

\* what `last' records: the handler called, if any, and the view it was given
\* and the handle of the watcher that called it (0: no watcher)
Op(name, res, h) == [op |-> name, res |-> res, h |-> h]
NoOp(name) == Op(name, View(Null, Null, Null), 0)

This ==
    [zk |-> zk, inited |-> inited, closed |-> closed,
     clusterState |-> clusterState, actives |-> actives, urls |-> urls,
     emitReadyCalled |-> emitReadyCalled, tickQ |-> tickQ,
     emitted |-> <<>>]

\* the program state a callback runs on: the Manatee object, the watcher
\* closures, the handles, and the handler call to record in `last'
St == [c |-> This, w |-> watchers, h |-> handles, op |-> NoOp("")]

\* an emitted event, with the value of _inited when it was emitted
Event(ev, arg, wasInited) == [ev |-> ev, arg |-> arg, inited |-> wasInited]

\* EventEmitter.prototype.emit
emit(c, ev, arg) == [c EXCEPT !.emitted = Append(@, Event(ev, arg, c.inited))]

\* an entry of the process.nextTick queue
TickEntry(fn, ev, arg) == [fn |-> fn, ev |-> ev, arg |-> arg]

Topologies(evs) == SelectSeq(evs, LAMBDA e : e.ev = "topology")
Count(evs, ev) == Len(SelectSeq(evs, LAMBDA e : e.ev = ev))

----------------------------------------------------------------------------
(* ManateePrimaryResolver: a mooremachine FSM.  A listener registered with *)
(* S.on lives as long as the state that registered it; gotoState runs the  *)
(* entry function of the new state at once.                                *)

\* the resolver after its constructor: this.mpr_* and the FSM state
NoResolver ==
    [state |-> "stopped",
     manatee |-> FALSE,     \* mpr_manatee is not null
     previous |-> Null,     \* mpr_previous
     primary |-> Null,      \* mpr_primary
     lastError |-> Null,    \* mpr_lastError: which error, by its ordinal
     errors |-> 0,          \* number of 'error' events listened to so far
     keys |-> 0,            \* number of keys drawn so far
     starts |-> 0,          \* number of Manatee objects created so far
     timer |-> FALSE,       \* the S.timeout of state failed is pending
     thrown |-> "",         \* the exception that has ended the process
     out |-> <<>>]          \* what the resolver emitted in the last step

\* mod_url.parse(url): protocol, hostname, port (null if there is none)
urlParse(url) ==
    LET fields == Split(Tail(url), ":")
    IN  [protocol |-> IF Head(url) = "tcp://" THEN "tcp:" ELSE "",
         hostname |-> fields[1],
         port |-> IF Len(fields) >= 2 THEN Some(fields[2]) ELSE Null]

\* mod_net.isIPv4(hostname) || mod_net.isIPv6(hostname)
isIP(hostname) == Len(hostname) = 1 /\ hostname[1] \in {ip1, ip2, ip3}

\* parseInt(primary.port, 10); parseInt(null) is NaN
portInt(port) ==
    IF IsNull(port) THEN NaN
    ELSE IF Val(port) = <<"5432">> THEN 5432 ELSE parseInt(Val(port))

\* a === b on numbers: NaN is not equal to itself
StrictEq(a, b) == a = b /\ a # NaN

\* ManateePrimaryResolver.prototype.count
count(r) == IF IsNull(r.primary) THEN 0 ELSE 1

\* ManateePrimaryResolver.prototype.getLastError
getLastError(r) == r.lastError

\* a faulty variant of list: the record held before is listed as well
listWithPrevious(r) ==
    LET held == {rec \in {r.primary, r.previous} : ~IsNull(rec)}
    IN  [k \in {Val(rec).key : rec \in held} |->
            CHOOSE rec \in held : Val(rec).key = k]

\* ManateePrimaryResolver.prototype.list: the backends by key
list(r) ==
    IF ~IsNull(r.primary)
    THEN [k \in {Val(r.primary).key} |-> r.primary]
    ELSE [k \in {} |-> Null]

\* a faulty variant of gotoFailed: the primary is kept
gotoFailedKeepsPrimary(r) ==
    [r EXCEPT !.state = "failed", !.previous = r.primary, !.timer = TRUE]

\* state_failed: the entry function
gotoFailed(r) ==
    [r EXCEPT !.state = "failed", !.previous = r.primary, !.primary = Null,
              !.timer = TRUE]

\* a faulty variant of diffPrimaryAndEmit: removed ahead of added
diffPrimaryAndEmitRemovedFirst(r, np) ==
    LET op == r.primary
    IN  IF /\ ~IsNull(op)
           /\ Val(op).name = np.name
           /\ Val(op).address = np.address
           /\ StrictEq(Val(op).port, np.port)
        THEN r
        ELSE LET key == r.keys + 1
                 rec == [name |-> np.name, address |-> np.address,
                         port |-> np.port, key |-> key]
             IN  [r EXCEPT
                    !.keys = key,
                    !.previous = op,
                    !.primary = Some(rec),
                    !.out = @ \o (IF IsNull(op) THEN <<>>
                                  ELSE <<[ev |-> "removed", key |-> Val(op).key,
                                          rec |-> Null]>>)
                             \o <<[ev |-> "added", key |-> key,
                                   rec |-> Some(rec)]>>]

\* ManateePrimaryResolver.prototype.diffPrimaryAndEmit; the key, 9 random
\* bytes, is one no earlier key equals
diffPrimaryAndEmit(r, np) ==
    LET op == r.primary
    IN  IF /\ ~IsNull(op)
           /\ Val(op).name = np.name
           /\ Val(op).address = np.address
           /\ StrictEq(Val(op).port, np.port)
        THEN r
        ELSE LET key == r.keys + 1
                 rec == [name |-> np.name, address |-> np.address,
                         port |-> np.port, key |-> key]
             IN  [r EXCEPT
                    !.keys = key,
                    !.previous = op,
                    !.primary = Some(rec),
                    !.out = @ \o <<[ev |-> "added", key |-> key,
                                    rec |-> Some(rec)]>>
                             \o (IF IsNull(op) THEN <<>>
                                  ELSE <<[ev |-> "removed", key |-> Val(op).key,
                                          rec |-> Null]>>)]

\* state_running: the listener of the client's 'topology'.  mod_url.parse
\* throws on urls[0] of an empty list, the assertions on a host that is no
\* IP literal.
onTopology(r, topology) ==
    IF topology = <<>> THEN [r EXCEPT !.thrown = "TypeError"]
    ELSE LET primary == urlParse(topology[1])
         IN  IF primary.protocol # "tcp:" \/ ~isIP(primary.hostname)
             THEN [r EXCEPT !.thrown = "AssertionError"]
             ELSE diffPrimaryAndEmit(r, [name |-> "primary",
                                         address |-> primary.hostname,
                                         port |-> portInt(primary.port)])

\* a faulty variant of onEvent: the listeners of state starting outlive it
onEventStaleListeners(r, e) ==
    IF r.thrown # "" THEN r
    ELSE CASE r.state \in {"starting", "failed"} /\ e.ev = "ready" ->
                [r EXCEPT !.state = "running"]
           [] r.state \in {"starting", "running"} /\ e.ev = "error" ->
                gotoFailed([r EXCEPT !.errors = @ + 1,
                                     !.lastError = Some(r.errors + 1)])
           [] r.state = "running" /\ e.ev = "topology" ->
                onTopology(r, e.arg)
           [] r.state = "stopping" /\ e.ev = "close" ->
                [r EXCEPT !.state = "stopped"]
           [] OTHER -> r

\* the listeners the current state has registered on the client; an
\* 'error' event nobody listens to is thrown by emit
onEvent(r, e) ==
    IF r.thrown # "" THEN r
    ELSE CASE r.state = "starting" /\ e.ev = "ready" ->
                [r EXCEPT !.state = "running"]
           [] r.state \in {"starting", "running"} /\ e.ev = "error" ->
                gotoFailed([r EXCEPT !.errors = @ + 1,
                                     !.lastError = Some(r.errors + 1)])
           [] r.state = "running" /\ e.ev = "topology" ->
                onTopology(r, e.arg)
           [] r.state = "stopping" /\ e.ev = "close" ->
                [r EXCEPT !.state = "stopped"]
           [] r.manatee /\ e.ev = "error" ->
                [r EXCEPT !.thrown = "error"]
           [] OTHER -> r

\* the client's events of one step, delivered in order
RECURSIVE Deliver(_, _)
Deliver(r, evs) ==
    IF evs = <<>> THEN r ELSE Deliver(onEvent(r, Head(evs)), Tail(evs))

\* The object after a callback has run, with what the observer saw of it
\* and what the resolver r made of its events (dropRef: the resolver then
\* sets mpr_manatee to null); a callback that calls no handler and emits
\* nothing leaves no trace.
CommitR(c, op, r, dropRef) ==
    /\ zk' = c.zk
    /\ inited' = c.inited
    /\ closed' = c.closed
    /\ clusterState' = c.clusterState
    /\ actives' = c.actives
    /\ urls' = c.urls
    /\ emitReadyCalled' = c.emitReadyCalled
    /\ tickQ' = c.tickQ
    /\ IF op.op = "" /\ c.emitted = <<>>
       THEN UNCHANGED <<emitted, topoLog, readyCount, errorCount, last, mpr>>
       ELSE /\ emitted' = c.emitted
            /\ topoLog' =
                  LastN(topoLog \o [i \in 1..Len(Topologies(c.emitted))
                                      |-> Topologies(c.emitted)[i].arg], 2)
            /\ readyCount' = readyCount + Count(c.emitted, "ready")
            /\ errorCount' = errorCount + Count(c.emitted, "error")
            /\ last' = op
            /\ mpr' = LET r1 == Deliver([r EXCEPT !.out = <<>>], c.emitted)
                      IN  IF dropRef THEN [r1 EXCEPT !.manatee = FALSE]
                          ELSE r1

Commit(c, op) == CommitR(c, op, mpr, FALSE)

\* a faulty variant of handleTopologyChange: no debouncing
handleTopologyChangeNoDebounce(c, newUrls) ==
    LET c1 == [c EXCEPT !.urls = newUrls]
    IN  IF c.inited THEN emit(c1, "topology", newUrls) ELSE c1

\* a faulty variant of handleTopologyChange: the emission is not gated by
\* _inited
handleTopologyChangeUngated(c, newUrls) ==
    IF Len(newUrls) = Len(c.urls)
          /\ \A i \in 1..Len(c.urls) : c.urls[i] = newUrls[i]
    THEN c
    ELSE emit([c EXCEPT !.urls = newUrls], "topology", newUrls)

\* Manatee.prototype._handleTopologyChange
handleTopologyChange(c, newUrls) ==
    LET equal == /\ Len(newUrls) = Len(c.urls)
                 /\ \A i \in 1..Len(c.urls) : c.urls[i] = newUrls[i]
    IN  IF equal THEN c
        ELSE LET c1 == [c EXCEPT !.urls = newUrls]
             IN  IF c.inited THEN emit(c1, "topology", newUrls) ELSE c1

\* a faulty variant of handleClusterState: on deletion of the state node
\* the topology is not recomputed from the actives
handleClusterStateKeepUrls(c, res) ==
    IF IsNull(res.data)
    THEN IF ~c.inited THEN c ELSE [c EXCEPT !.clusterState = Null]
    ELSE LET p == JSONParse(Val(res.data))
         IN  IF ~p.ok THEN emit(c, "error", <<>>)
             ELSE handleTopologyChange(
                      [c EXCEPT !.clusterState = Some(p.value)],
                      clusterStateToUrls(p.value))

\* Manatee.prototype._handleClusterState
handleClusterState(c, res) ==
    IF IsNull(res.data)
    THEN IF ~c.inited THEN c
         ELSE LET c1 == [c EXCEPT !.clusterState = Null]
              IN  IF ~IsNull(c1.actives)
                  THEN handleTopologyChange(
                           [c1 EXCEPT !.actives = Some(sort(Val(@)))],
                           childrenToUrls(Val(c1.actives)))
                  ELSE c1
    ELSE LET p == JSONParse(Val(res.data))
         IN  IF ~p.ok THEN emit(c, "error", <<>>)
             ELSE handleTopologyChange(
                      [c EXCEPT !.clusterState = Some(p.value)],
                      clusterStateToUrls(p.value))

\* a faulty variant of handleActive: the actives always drive the topology
handleActiveIgnoresState(c, res) ==
    IF IsNull(res.children) THEN [c EXCEPT !.actives = Null]
    ELSE handleTopologyChange(
             [c EXCEPT !.actives = Some(sort(Val(res.children)))],
             childrenToUrls(Val(res.children)))

\* Manatee.prototype._handleActive
handleActive(c, res) ==
    IF IsNull(res.children) THEN [c EXCEPT !.actives = Null]
    ELSE LET c1 == [c EXCEPT !.actives = res.children]
         IN  IF ~IsNull(c1.clusterState) THEN c1
             ELSE handleTopologyChange(
                      [c1 EXCEPT !.actives = Some(sort(Val(@)))],
                      childrenToUrls(Val(c1.actives)))

\* a faulty variant of emitReady: the current topology is not emitted
emitReadyWithoutTopology(c) ==
    IF c.emitReadyCalled THEN c
    ELSE [c EXCEPT !.emitReadyCalled = TRUE,
                   !.inited = TRUE,
                   !.tickQ = @ \o <<TickEntry("emit", "ready", <<>>)>>]

\* a faulty variant of emitReady: no once() around it
emitReadyEveryTime(c) ==
    [c EXCEPT !.emitReadyCalled = TRUE,
              !.inited = TRUE,
              !.tickQ = @ \o <<TickEntry("emit", "ready", <<>>),
                               TickEntry("emit", "topology", c.urls)>>]

\* _init.emitReady, wrapped in once()
emitReady(c) ==
    IF c.emitReadyCalled THEN c
    ELSE [c EXCEPT !.emitReadyCalled = TRUE,
                   !.inited = TRUE,
                   !.tickQ = @ \o <<TickEntry("emit", "ready", <<>>),
                                    TickEntry("emit", "topology", c.urls)>>]

----------------------------------------------------------------------------
(* ZooKeeper handles and the NodeWatcher, _watchNode.  A request is served  *)
(* and its callback run in one step: the callback sees the node as it is   *)
(* at that step.  A watch is armed by the step that serves the request     *)
(* carrying it, and is one-shot.                                           *)

\* self._clusterStatePath and self._electionPath
Paths == {"state", "election"}

Handles == 1..MaxSessions

\* the requests of _watchNode: zk.getData from getData(true) and from
\* getData(false), zk.getChildren with subcb = done of a getData(true) and
\* with no subcb (or the done of a getData(false), which does nothing),
\* zk.exists; and the two retry timers, setTimeout(getData, 5000) and
\* setTimeout(registerChildrenWatch, 5000)
Kinds == {"getData", "getDataNoReg", "getChildren", "getChildrenNoSub",
          "exists", "getDataTimer", "getChildrenTimer"}

NoHandle ==
    [created |-> FALSE, open |-> FALSE, listening |-> FALSE,
     connected |-> FALSE, setWatchesCalled |-> FALSE, resetCalled |-> FALSE]

NewHandle ==
    [created |-> TRUE, open |-> TRUE, listening |-> TRUE,
     connected |-> FALSE, setWatchesCalled |-> FALSE, resetCalled |-> FALSE]

NoWatcher ==
    [started |-> FALSE, currStat |-> Null, currData |-> Null,
     currChildren |-> Null, cbCalled |-> FALSE,
     watBeforeCb |-> FALSE,     \* wat has been called with cb.called false
     pend |-> [k \in Kinds |-> 0],
     dataWatch |-> FALSE, childWatch |-> FALSE,
     dataFired |-> 0, childFired |-> 0]

\* a request handed to handle h; a closed handle serves no new request
zkRequest(st, h, p, kind) ==
    IF ~st.h[h].open THEN st
    ELSE [st EXCEPT !.w[h][p].pend[kind] = @ + 1]

\* _watchNode.getData, up to the call of zk.getData
getData(st, h, p, regWatch) ==
    IF st.c.closed THEN st
    ELSE zkRequest(st, h, p, IF regWatch THEN "getData" ELSE "getDataNoReg")

\* _watchNode.registerChildrenWatch, up to the call of zk.getChildren
registerChildrenWatch(st, h, p, sub) ==
    IF st.c.closed THEN st
    ELSE zkRequest(st, h, p, IF sub THEN "getChildren" ELSE "getChildrenNoSub")

\* _watchNode.registerDataWatch, up to the call of zk.exists
registerDataWatch(st, h, p) ==
    IF st.c.closed THEN st ELSE zkRequest(st, h, p, "exists")

\* getData.done, for the regWatch of the getData that defined it
done(st, h, p, regWatch) ==
    IF regWatch THEN registerDataWatch(st, h, p) ELSE st

\* _watchNode.getRes
getRes(st, h, p) ==
    View(st.w[h][p].currData, st.w[h][p].currStat, st.w[h][p].currChildren)

\* The handler of path p called with res.  childrenToUrls sorts the array
\* it is given in place, and that array is the watcher's currChildren, so
\* every currChildren that is the array held in _actives follows it.
wat(st, h, p, res) ==
    LET c1 == IF p = "state" THEN handleClusterState(st.c, res)
              ELSE handleActive(st.c, res)
        name == IF p = "state" THEN "handleClusterState" ELSE "handleActive"
        same(x, q) ==
            /\ q = "election"
            /\ ~IsNull(c1.actives)
            /\ IF p = "election"
               THEN x = h /\ ~IsNull(res.children)
               ELSE st.w[x][q].currChildren = st.c.actives
    IN  [st EXCEPT !.c = c1,
                   !.op = Op(name, res, h),
                   !.w = [x \in Handles |-> [q \in Paths |->
                            IF same(x, q)
                            THEN [st.w[x][q] EXCEPT !.currChildren = c1.actives]
                            ELSE st.w[x][q]]]]

\* wat called by the watcher itself: the change callback
onChange(st, h, p, res) ==
    wat([st EXCEPT !.w[h][p].watBeforeCb = @ \/ ~st.w[h][p].cbCalled],
        h, p, res)

\* Manatee.prototype._watchNode(zk, path, wat, cb)
watchNode(st, h, p) ==
    getData([st EXCEPT !.w[h][p] = [NoWatcher EXCEPT !.started = TRUE]],
            h, p, TRUE)

\* The once-wrapped cb of _watchNode, which is setWatches' onWatching: the
\* handler, then the next function of the vasync pipeline.  After the state
\* path that is watchEphemeralDirectory, after the election path it is the
\* callback of setWatchesOnce, which (err being null) calls emitReady.
cb(st, h, p, res) ==
    IF st.w[h][p].cbCalled THEN st
    ELSE LET s1 == wat([st EXCEPT !.w[h][p].cbCalled = TRUE], h, p, res)
         IN  IF p = "state"
             THEN watchNode(s1, h, "election")
             ELSE [s1 EXCEPT !.c = emitReady(@)]

\* the callback of zk.getData in getData(regWatch); node is what the
\* ensemble holds at the path (Null: the NO_NODE error)
getDataCallback(st, h, p, regWatch, node) ==
    LET prevStat == st.w[h][p].currStat
        s1 == IF IsNull(node)
              THEN [st EXCEPT !.w[h][p].currStat = Null,
                              !.w[h][p].currData = Null,
                              !.w[h][p].currChildren = Null]
              ELSE [st EXCEPT !.w[h][p].currStat = Some(Val(node).version),
                              !.w[h][p].currData = Val(node).data]
        currStat == s1.w[h][p].currStat
    IN  IF ~s1.w[h][p].cbCalled
        THEN IF ~IsNull(currStat)
             THEN registerChildrenWatch(s1, h, p, regWatch)
             ELSE done(cb(s1, h, p, getRes(s1, h, p)), h, p, regWatch)
        ELSE IF IsNull(prevStat) /\ ~IsNull(currStat) /\ Val(currStat) = 0
             THEN registerChildrenWatch(s1, h, p, regWatch)
             ELSE done(onChange(s1, h, p, getRes(s1, h, p)), h, p, regWatch)

\* the callback of zk.getData called with an error other than NO_NODE: data
\* and stat, both undefined, are stored before the error is looked at, and
\* getData is set to run again in 5 s
getDataFailed(st, h, p) ==
    [st EXCEPT !.w[h][p].currStat = Null,
               !.w[h][p].currData = Null,
               !.w[h][p].pend["getDataTimer"] = @ + 1]

\* the callback of zk.getChildren called with an error other than NO_NODE
getChildrenFailed(st, h, p) ==
    [st EXCEPT !.w[h][p].pend["getChildrenTimer"] = @ + 1]

\* the timers run the function with no argument: regWatch and subcb are
\* undefined
getDataRetry(st, h, p) == getData(st, h, p, FALSE)

registerChildrenWatchRetry(st, h, p) == registerChildrenWatch(st, h, p, FALSE)

\* a faulty variant of getChildrenCallback: wat whether or not cb has run
getChildrenCallbackNoInit(st, h, p, sub, node, children) ==
    IF IsNull(node) THEN st
    ELSE LET s1 == [st EXCEPT !.w[h][p].childWatch = st.h[h].open,
                              !.w[h][p].currChildren = Some(children)]
             s2 == cb(onChange(s1, h, p, getRes(s1, h, p)),
                      h, p, getRes(s1, h, p))
         IN  done(s2, h, p, sub)

\* the callback of zk.getChildren in registerChildrenWatch(subcb); the watch
\* childrenWatchFired is armed when the node exists
getChildrenCallback(st, h, p, sub, node, children) ==
    IF IsNull(node) THEN st
    ELSE LET s1 == [st EXCEPT !.w[h][p].childWatch = st.h[h].open,
                              !.w[h][p].currChildren = Some(children)]
             s2 == IF ~s1.w[h][p].cbCalled
                   THEN cb(s1, h, p, getRes(s1, h, p))
                   ELSE onChange(s1, h, p, getRes(s1, h, p))
         IN  done(s2, h, p, sub)

\* the callback of zk.exists in registerDataWatch; the watch dataWatchFired
\* is armed whether or not the node exists
existsCallback(st, h, p, node) ==
    LET s1 == [st EXCEPT !.w[h][p].dataWatch = st.h[h].open]
        currStat == st.w[h][p].currStat
    IN  IF ~IsNull(node) /\ ~IsNull(currStat)
              /\ Val(currStat) # Val(node).version
        THEN getData(s1, h, p, FALSE)
        ELSE s1

\* _watchNode.dataWatchFired
dataWatchFired(st, h, p) ==
    IF st.c.closed THEN st ELSE getData(st, h, p, TRUE)

\* _watchNode.childrenWatchFired
childrenWatchFired(st, h, p) ==
    IF st.c.closed THEN st ELSE registerChildrenWatch(st, h, p, FALSE)

\* zk.close(): the session ends, and with it its watches
zkClose(st, h) ==
    [st EXCEPT !.h[h].open = FALSE,
               !.h[h].connected = FALSE,
               !.w[h] = [p \in Paths |->
                           [@[p] EXCEPT !.dataWatch = FALSE,
                                        !.childWatch = FALSE,
                                        !.dataFired = 0,
                                        !.childFired = 0]]]

\* a faulty variant of close: `close' is emitted by every call
closeEveryTime(st) ==
    LET s1 == IF st.c.zk # 0
              THEN [zkClose(st, st.c.zk) EXCEPT !.h[st.c.zk].listening = FALSE]
              ELSE st
    IN  [s1 EXCEPT !.c = emit([@ EXCEPT !.closed = TRUE], "close", <<>>)]

\* Manatee.prototype.close
close(st) ==
    LET s1 == IF st.c.zk # 0
              THEN [zkClose(st, st.c.zk) EXCEPT !.h[st.c.zk].listening = FALSE]
              ELSE st
    IN  IF ~s1.c.closed
        THEN [s1 EXCEPT !.c = emit([@ EXCEPT !.closed = TRUE], "close", <<>>)]
        ELSE s1

\* _init.setupZkClient: a new handle, its listeners, zk.connect()
setupZkClient(st) ==
    [st EXCEPT !.c.zk = st.c.zk + 1,
               !.h[st.c.zk + 1] = NewHandle]

\* setupZkClient.resetZkClientOnce, for the handle h of its closure
resetZkClient(st, h) ==
    IF st.h[h].resetCalled THEN st
    ELSE [zkClose([st EXCEPT !.h[h].resetCalled = TRUE], h)
            EXCEPT !.c.tickQ = Append(@, TickEntry("setupZkClient", "", <<>>))]

\* a faulty variant of setWatches: no once() around _setWatches
setWatchesEveryTime(st, h) ==
    watchNode([st EXCEPT !.h[h].setWatchesCalled = TRUE], h, "state")

\* setupZkClient.setWatchesOnce: Manatee.prototype._setWatches, whose
\* pipeline starts with watchClusterState
setWatches(st, h) ==
    IF st.h[h].setWatchesCalled THEN st
    ELSE watchNode([st EXCEPT !.h[h].setWatchesCalled = TRUE], h, "state")

----------------------------------------------------------------------------
(* The ZooKeeper ensemble.                                                 *)

Node(data, version, children) ==
    [data |-> data, version |-> version, children |-> children]

\* every order in which the elements of the set S may be listed
SeqsOf(S) ==
    {s \in [1..Cardinality(S) -> S] : \A i, j \in DOMAIN s : s[i] = s[j] => i = j}

\* the election nodes of the ensemble: ephemeral-sequential, so no two
\* carry the same sequence number
ElectionChildren == {id(ip1, <<"0", "1">>), id(ip2, <<"0", "2">>)}

\* the contents written to the state node
ZkStateData == {"B12", "B31"}

\* what the ensemble may hold when the client is constructed
InitialZk ==
    {[state |-> Null, election |-> Null],
     [state |-> Null,
      election |-> Some(Node(Null, 0, {id(ip1, <<"0", "1">>)}))],
     [state |-> Some(Node(Some("B12"), 0, {})),
      election |-> Some(Node(Null, 0, {}))]}

\* the one-shot watches on path p fire: the data watches on a change of
\* the node itself, the children watches on a change of its children
fireWatches(w, p, onData, onChildren) ==
    [h \in Handles |-> [q \in Paths |->
        IF q # p THEN w[h][q]
        ELSE [w[h][q] EXCEPT
                 !.dataWatch = @ /\ ~onData,
                 !.dataFired = IF onData /\ w[h][q].dataWatch THEN @ + 1 ELSE @,
                 !.childWatch = @ /\ ~onChildren,
                 !.childFired =
                     IF onChildren /\ w[h][q].childWatch THEN @ + 1 ELSE @]]]

ZkChange(max, p, node, onData, onChildren) ==
    /\ tickQ = <<>>
    /\ zkOps < max
    /\ zkOps' = zkOps + 1
    /\ znodes' = [znodes EXCEPT ![p] = node]
    /\ watchers' = fireWatches(watchers, p, onData, onChildren)
    /\ UNCHANGED <<clientVars, obsVars, handles>>

ZkCreateState(max) ==
    /\ IsNull(znodes["state"])
    /\ \E d \in ZkStateData :
          ZkChange(max, "state", Some(Node(Some(d), 0, {})), TRUE, FALSE)

ZkSetState(max) ==
    /\ ~IsNull(znodes["state"])
    /\ \E d \in ZkStateData :
          ZkChange(max, "state",
                   Some([Val(znodes["state"]) EXCEPT !.data = Some(d),
                                                     !.version = @ + 1]),
                   TRUE, FALSE)

ZkCreateElection(max) ==
    /\ IsNull(znodes["election"])
    /\ ZkChange(max, "election", Some(Node(Null, 0, {})), TRUE, FALSE)

ZkDelete(max, p) ==
    /\ ~IsNull(znodes[p])
    /\ Val(znodes[p]).children = {}
    /\ ZkChange(max, p, Null, TRUE, TRUE)

ZkAddChild(max) ==
    /\ ~IsNull(znodes["election"])
    /\ \E n \in ElectionChildren \ Val(znodes["election"]).children :
          ZkChange(max, "election",
                   Some([Val(znodes["election"]) EXCEPT !.children = @ \cup {n}]),
                   FALSE, TRUE)

ZkRemoveChild(max) ==
    /\ ~IsNull(znodes["election"])
    /\ \E n \in Val(znodes["election"]).children :
          ZkChange(max, "election",
                   Some([Val(znodes["election"]) EXCEPT !.children = @ \ {n}]),
                   FALSE, TRUE)

----------------------------------------------------------------------------
(* The steps of the program.  Callbacks queued with process.nextTick run   *)
(* before any other callback.                                              *)

Apply(st) ==
    /\ Commit(st.c, st.op)
    /\ watchers' = st.w
    /\ handles' = st.h

Init ==
    /\ zk = 0
    /\ inited = FALSE
    /\ closed = FALSE
    /\ clusterState = Null
    /\ actives = Null
    /\ urls = <<>>
    /\ emitReadyCalled = FALSE
    /\ tickQ = <<TickEntry("init", "", <<>>)>>
    /\ emitted = <<>>
    /\ topoLog = <<>>
    /\ readyCount = 0
    /\ errorCount = 0
    /\ last = NoOp("")
    /\ mpr = NoResolver
    /\ handles = [h \in Handles |-> NoHandle]
    /\ watchers = [h \in Handles |-> [p \in Paths |-> NoWatcher]]
    /\ znodes \in InitialZk
    /\ zkOps = 0

\* the oldest process.nextTick callback: init (Manatee.prototype._init, which
\* calls setupZkClient), setupZkClient, or a bound self.emit
Tick ==
    /\ tickQ # <<>>
    /\ LET e == Head(tickQ)
           st == [St EXCEPT !.c.tickQ = Tail(tickQ)]
       IN  IF e.fn = "emit"
           THEN Apply([st EXCEPT !.c = emit(@, e.ev, e.arg),
                                 !.op = NoOp("emit")])
           ELSE Apply(setupZkClient(st))
    /\ UNCHANGED <<znodes, zkOps>>

\* the handle's 'connected' event: on the first connection of the session
\* and on every reconnection after a 'disconnected'
ZkConnected(h) ==
    /\ tickQ = <<>>
    /\ handles[h].listening /\ handles[h].open
    /\ Apply(setWatches([St EXCEPT !.h[h].connected = TRUE], h))
    /\ UNCHANGED <<znodes, zkOps>>

\* the handle's 'expired' event
ZkExpired(h) ==
    /\ tickQ = <<>>
    /\ handles[h].listening
    /\ handles[h].resetCalled \/ zk < MaxSessions
    /\ Apply(resetZkClient(St, h))
    /\ UNCHANGED <<znodes, zkOps>>

\* the handle's 'error' event
ZkError(h) ==
    /\ tickQ = <<>>
    /\ handles[h].listening
    /\ handles[h].resetCalled \/ zk < MaxSessions
    /\ Apply(resetZkClient(St, h))
    /\ UNCHANGED <<znodes, zkOps>>

\* the pending request `kind' of watcher (h, p), taken out of flight
Take(h, p, kind) == [St EXCEPT !.w[h][p].pend[kind] = @ - 1]

GetDataDone(h, p, regWatch) ==
    LET kind == IF regWatch THEN "getData" ELSE "getDataNoReg"
    IN  /\ tickQ = <<>>
        /\ watchers[h][p].pend[kind] > 0
        /\ Apply(getDataCallback(Take(h, p, kind),
                                 h, p, regWatch, znodes[p]))
        /\ UNCHANGED <<znodes, zkOps>>

GetChildrenDone(h, p, sub) ==
    LET kind == IF sub THEN "getChildren" ELSE "getChildrenNoSub"
    IN  /\ tickQ = <<>>
        /\ watchers[h][p].pend[kind] > 0
        /\ \E children \in IF IsNull(znodes[p]) THEN {<<>>}
                           ELSE SeqsOf(Val(znodes[p]).children) :
              Apply(getChildrenCallback(Take(h, p, kind),
                                        h, p, sub, znodes[p], children))
        /\ UNCHANGED <<znodes, zkOps>>

ExistsDone(h, p) ==
    /\ tickQ = <<>>
    /\ watchers[h][p].pend["exists"] > 0
    /\ Apply(existsCallback(Take(h, p, "exists"), h, p, znodes[p]))
    /\ UNCHANGED <<znodes, zkOps>>

DataWatchFired(h, p) ==
    /\ tickQ = <<>>
    /\ watchers[h][p].dataFired > 0
    /\ Apply(dataWatchFired(
                [St EXCEPT !.w[h][p].dataFired = @ - 1],
                h, p))
    /\ UNCHANGED <<znodes, zkOps>>

ChildrenWatchFired(h, p) ==
    /\ tickQ = <<>>
    /\ watchers[h][p].childFired > 0
    /\ Apply(childrenWatchFired(
                [St EXCEPT !.w[h][p].childFired = @ - 1],
                h, p))
    /\ UNCHANGED <<znodes, zkOps>>

\* The user calls close(): from a callback of its own, right after the
\* constructor (before init has run), or from its 'ready' listener (before
\* the deferred 'topology').
Close ==
    /\ IF tickQ = <<>> THEN TRUE
       ELSE Head(tickQ).fn = "init" \/ Head(tickQ).ev = "topology"
    /\ Apply([close(St) EXCEPT !.op = NoOp("close")])
    /\ UNCHANGED <<znodes, zkOps>>

Next ==
    \/ Tick
    \/ Close
    \/ \E h \in Handles : ZkConnected(h)
    \/ \E h \in Handles : ZkExpired(h)
    \/ \E h \in Handles : ZkError(h)
    \/ \E h \in Handles, p \in Paths, r \in BOOLEAN : GetDataDone(h, p, r)
    \/ \E h \in Handles, p \in Paths, r \in BOOLEAN : GetChildrenDone(h, p, r)
    \/ \E h \in Handles, p \in Paths : ExistsDone(h, p)
    \/ \E h \in Handles, p \in Paths : DataWatchFired(h, p)
    \/ \E h \in Handles, p \in Paths : ChildrenWatchFired(h, p)
    \/ ZkCreateState(MaxZkOps)
    \/ ZkSetState(MaxZkOps)
    \/ ZkCreateElection(MaxZkOps)
    \/ \E p \in Paths : ZkDelete(MaxZkOps, p)
    \/ ZkAddChild(MaxZkOps)
    \/ ZkRemoveChild(MaxZkOps)

Spec == Init /\ [][Next]_vars

----------------------------------------------------------------------------
(* One session and its two NodeWatchers: the program with no session loss  *)
(* and no call of close().                                                 *)

NextWatch ==
    \/ Tick
    \/ \E h \in Handles : ZkConnected(h)
    \/ \E h \in Handles, p \in Paths, r \in BOOLEAN : GetDataDone(h, p, r)
    \/ \E h \in Handles, p \in Paths, r \in BOOLEAN : GetChildrenDone(h, p, r)
    \/ \E h \in Handles, p \in Paths : ExistsDone(h, p)
    \/ \E h \in Handles, p \in Paths : DataWatchFired(h, p)
    \/ \E h \in Handles, p \in Paths : ChildrenWatchFired(h, p)
    \/ ZkCreateState(MaxWatchOps)
    \/ ZkSetState(MaxWatchOps)
    \/ ZkCreateElection(MaxWatchOps)
    \/ \E p \in Paths : ZkDelete(MaxWatchOps, p)
    \/ ZkAddChild(MaxWatchOps)
    \/ ZkRemoveChild(MaxWatchOps)

SpecWatch == Init /\ [][NextWatch]_vars

----------------------------------------------------------------------------
(* One session whose reads may fail with a transient error, over nodes     *)
(* that are created and changed but not deleted.                           *)

\* a transient error (CONNECTION_LOSS, ...) answers a zk.getData
GetDataFailed(h, p, regWatch) ==
    LET kind == IF regWatch THEN "getData" ELSE "getDataNoReg"
    IN  /\ tickQ = <<>>
        /\ watchers[h][p].pend[kind] > 0
        /\ zkOps < MaxWatchOps
        /\ zkOps' = zkOps + 1
        /\ Apply(getDataFailed(Take(h, p, kind), h, p))
        /\ UNCHANGED znodes

\* a transient error answers a zk.getChildren
GetChildrenFailed(h, p, sub) ==
    LET kind == IF sub THEN "getChildren" ELSE "getChildrenNoSub"
    IN  /\ tickQ = <<>>
        /\ watchers[h][p].pend[kind] > 0
        /\ zkOps < MaxWatchOps
        /\ zkOps' = zkOps + 1
        /\ Apply(getChildrenFailed(Take(h, p, kind), h, p))
        /\ UNCHANGED znodes

\* setTimeout(getData, 5000) fires
GetDataTimer(h, p) ==
    /\ tickQ = <<>>
    /\ watchers[h][p].pend["getDataTimer"] > 0
    /\ Apply(getDataRetry(Take(h, p, "getDataTimer"), h, p))
    /\ UNCHANGED <<znodes, zkOps>>

\* setTimeout(registerChildrenWatch, 5000) fires
GetChildrenTimer(h, p) ==
    /\ tickQ = <<>>
    /\ watchers[h][p].pend["getChildrenTimer"] > 0
    /\ Apply(registerChildrenWatchRetry(Take(h, p, "getChildrenTimer"), h, p))
    /\ UNCHANGED <<znodes, zkOps>>

NextRetry ==
    \/ Tick
    \/ \E h \in Handles : ZkConnected(h)
    \/ \E h \in Handles, p \in Paths, r \in BOOLEAN : GetDataDone(h, p, r)
    \/ \E h \in Handles, p \in Paths, r \in BOOLEAN : GetChildrenDone(h, p, r)
    \/ \E h \in Handles, p \in Paths : ExistsDone(h, p)
    \/ \E h \in Handles, p \in Paths : DataWatchFired(h, p)
    \/ \E h \in Handles, p \in Paths : ChildrenWatchFired(h, p)
    \/ \E h \in Handles, p \in Paths, r \in BOOLEAN : GetDataFailed(h, p, r)
    \/ \E h \in Handles, p \in Paths, r \in BOOLEAN :
          GetChildrenFailed(h, p, r)
    \/ \E h \in Handles, p \in Paths : GetDataTimer(h, p)
    \/ \E h \in Handles, p \in Paths : GetChildrenTimer(h, p)
    \/ ZkCreateState(MaxWatchOps)
    \/ ZkSetState(MaxWatchOps)
    \/ ZkCreateElection(MaxWatchOps)
    \/ ZkAddChild(MaxWatchOps)
    \/ ZkRemoveChild(MaxWatchOps)

SpecRetry == Init /\ [][NextRetry]_vars

----------------------------------------------------------------------------
(* One session over an ensemble that holds no peers: no state node, and an *)
(* election directory that is absent or empty, created and removed.        *)

InitEmpty ==
    /\ Init
    /\ znodes = [state |-> Null, election |-> Null]

NextEmpty ==
    \/ Tick
    \/ \E h \in Handles : ZkConnected(h)
    \/ \E h \in Handles, p \in Paths, r \in BOOLEAN : GetDataDone(h, p, r)
    \/ \E h \in Handles, p \in Paths, r \in BOOLEAN : GetChildrenDone(h, p, r)
    \/ \E h \in Handles, p \in Paths : ExistsDone(h, p)
    \/ \E h \in Handles, p \in Paths : DataWatchFired(h, p)
    \/ \E h \in Handles, p \in Paths : ChildrenWatchFired(h, p)
    \/ ZkCreateElection(MaxWatchOps)
    \/ ZkDelete(MaxWatchOps, "election")

SpecEmpty == InitEmpty /\ [][NextEmpty]_vars

----------------------------------------------------------------------------
(* The handlers alone: handleClusterState and handleActive called with any *)
(* view in any order, as the contract of the two handlers allows, and      *)
(* emitReady called at any point between them.                             *)

\* the election node names handed to handleActive: the current encoding,
\* the legacy one, two names with the same sequence number, sequence
\* numbers of different lengths, a host name holding a '-'
NamePool ==
    {id(ip1, <<"1", "0">>),
     id(ip2, <<"2">>),
     <<ip3, "-", "2">>,
     <<"pg", "-", "a", ":", "5432", ":", "12345", "-", "3">>}

\* the lists of at most n distinct names of S
ListsOf(S, n) ==
    UNION {SeqsOf(T) : T \in {X \in SUBSET S : Cardinality(X) <= n}}

\* the children lists handed to handleActive
ActiveLists == ListsOf(NamePool, MaxChildren)

InitHandlers ==
    /\ zk = 1
    /\ inited = FALSE
    /\ closed = FALSE
    /\ clusterState = Null
    /\ actives = Null
    /\ urls = <<>>
    /\ emitReadyCalled = FALSE
    /\ tickQ = <<>>
    /\ emitted = <<>>
    /\ topoLog = <<>>
    /\ readyCount = 0
    /\ errorCount = 0
    /\ last = NoOp("")
    /\ mpr = NoResolver
    /\ handles = [h \in Handles |-> IF h = 1 THEN NewHandle ELSE NoHandle]
    /\ watchers = [h \in Handles |-> [p \in Paths |-> NoWatcher]]
    /\ znodes = [state |-> Null, election |-> Null]
    /\ zkOps = 0

HandleClusterStateCall ==
    /\ tickQ = <<>>
    /\ \E data \in {Null} \cup {Some(d) : d \in StateData} :
          LET res == View(data, IF IsNull(data) THEN Null ELSE Some(0), Null)
          IN  Commit(handleClusterState(This, res),
                     Op("handleClusterState", res, 0))
    /\ UNCHANGED zkVars

HandleActiveCall ==
    /\ tickQ = <<>>
    /\ \E children \in {Null} \cup {Some(l) : l \in ActiveLists} :
          LET res == View(Null, IF IsNull(children) THEN Null ELSE Some(0),
                          children)
          IN  Commit(handleActive(This, res), Op("handleActive", res, 0))
    /\ UNCHANGED zkVars

EmitReadyCall ==
    /\ tickQ = <<>>
    /\ Commit(emitReady(This), NoOp("emitReady"))
    /\ UNCHANGED zkVars

NextHandlers ==
    \/ HandleClusterStateCall
    \/ HandleActiveCall
    \/ EmitReadyCall
    \/ Tick

SpecHandlers == InitHandlers /\ [][NextHandlers]_vars

----------------------------------------------------------------------------
(* The handlers over the state documents: handleClusterState called with   *)
(* any document, well-formed or not, between calls of handleActive.        *)

\* the children lists handed to handleActive here
DocActives == ListsOf(NamePool, 2)

HandleDocCall ==
    /\ tickQ = <<>>
    /\ \E d \in DocData :
          /\ JSONParse(d).ok \/ errorCount < MaxErrors
          /\ LET res == View(Some(d), Some(0), Null)
             IN  Commit(handleClusterState(This, res),
                        Op("handleClusterState", res, 0))
    /\ UNCHANGED zkVars

HandleDocActiveCall ==
    /\ tickQ = <<>>
    /\ \E l \in DocActives :
          LET res == View(Null, Some(0), Some(l))
          IN  Commit(handleActive(This, res), Op("handleActive", res, 0))
    /\ UNCHANGED zkVars

NextDocs ==
    \/ HandleDocCall
    \/ HandleDocActiveCall
    \/ EmitReadyCall
    \/ Tick

SpecDocs == InitHandlers /\ [][NextDocs]_vars

----------------------------------------------------------------------------
(* The ManateePrimaryResolver over the handlers: start(), stop() and the   *)
(* retry timer of state_failed, between the callbacks of the client the    *)
(* resolver created.                                                       *)

\* a Manatee object as the handlers find it once its session is up
NewManatee ==
    [zk |-> 1, inited |-> FALSE, closed |-> FALSE, clusterState |-> Null,
     actives |-> Null, urls |-> <<>>, emitReadyCalled |-> FALSE,
     tickQ |-> <<>>, emitted |-> <<>>]

\* state_starting: the entry function; a Manatee is created only if
\* mpr_manatee is null
state_starting(name) ==
    IF mpr.manatee
    THEN /\ CommitR(This, NoOp(name),
                    [mpr EXCEPT !.state = "starting", !.timer = FALSE], FALSE)
         /\ UNCHANGED zkVars
    ELSE /\ CommitR(NewManatee, NoOp(name),
                    [mpr EXCEPT !.state = "starting", !.timer = FALSE,
                                !.manatee = TRUE, !.starts = @ + 1], FALSE)
         /\ handles' = [h \in Handles |-> IF h = 1 THEN NewHandle ELSE NoHandle]
         /\ watchers' = [h \in Handles |-> [p \in Paths |-> NoWatcher]]
         /\ UNCHANGED <<znodes, zkOps>>

\* ManateePrimaryResolver.prototype.start, state_stopped: startAsserted
Start ==
    /\ mpr.thrown = ""
    /\ tickQ = <<>>
    /\ mpr.state = "stopped"
    /\ mpr.manatee \/ mpr.starts < MaxStarts
    /\ state_starting("start")

\* state_failed: the timeout of one second; a timer set with S.timeout is
\* cleared when its state is left
Timeout ==
    /\ mpr.thrown = ""
    /\ tickQ = <<>>
    /\ mpr.timer
    /\ state_starting("timeout")

\* ManateePrimaryResolver.prototype.stop in state running: state_stopping
\* registers the 'close' listener, calls close(), sets mpr_manatee to null
StopRunning ==
    /\ mpr.thrown = ""
    /\ tickQ = <<>>
    /\ mpr.state = "running"
    /\ LET st == [close(St) EXCEPT !.op = NoOp("stop")]
       IN  /\ CommitR(st.c, st.op, [mpr EXCEPT !.state = "stopping"], TRUE)
           /\ watchers' = st.w
           /\ handles' = st.h
    /\ UNCHANGED <<znodes, zkOps>>

\* ManateePrimaryResolver.prototype.stop in state failed: to stopped
StopFailed ==
    /\ mpr.thrown = ""
    /\ tickQ = <<>>
    /\ mpr.state = "failed"
    /\ CommitR(This, NoOp("stop"),
               [mpr EXCEPT !.state = "stopped", !.timer = FALSE], FALSE)
    /\ UNCHANGED zkVars

\* the resolver's client exists, is open, and the process is alive
ClientRuns ==
    /\ mpr.thrown = ""
    /\ mpr.starts > 0
    /\ ~closed
    /\ mpr.keys < MaxKeys

\* the state documents and the children lists the resolver's client sees:
\* primaries with a port, a malformed document, legacy names without a
\* port, a name whose host is no IP literal, and no peers at all
ResolverDocs == {"B12", "B3", "B31", "BAD"}
ResolverActives ==
    {<<>>,
     << <<ip3, "-", "2">> >>,
     << <<ip3, "-", "2">>, id(ip1, <<"1", "0">>) >>,
     << <<"pg", "-", "a", ":", "5432", ":", "12345", "-", "3">> >>}

ClientState ==
    /\ ClientRuns
    /\ tickQ = <<>>
    /\ \E d \in ResolverDocs :
          /\ JSONParse(d).ok \/ errorCount < MaxErrors
          /\ LET res == View(Some(d), Some(0), Null)
             IN  Commit(handleClusterState(This, res),
                        Op("handleClusterState", res, 0))
    /\ UNCHANGED zkVars

ClientActive ==
    /\ ClientRuns
    /\ tickQ = <<>>
    /\ \E l \in ResolverActives :
          LET res == View(Null, Some(0), Some(l))
          IN  Commit(handleActive(This, res), Op("handleActive", res, 0))
    /\ UNCHANGED zkVars

ClientReady == ClientRuns /\ EmitReadyCall

ClientTick == ClientRuns /\ Tick

NextResolver ==
    \/ Start
    \/ Timeout
    \/ StopRunning
    \/ StopFailed
    \/ ClientState
    \/ ClientActive
    \/ ClientReady
    \/ ClientTick

SpecResolver == InitHandlers /\ [][NextResolver]_vars

\* The same with what the event loop and a reachable ZooKeeper guarantee:
\* the timer of state failed fires, callbacks queued with process.nextTick
\* run, and the watchers of a connected client deliver their first views,
\* so that emitReady is called.
SpecResolverLive ==
    /\ InitHandlers
    /\ [][NextResolver]_vars
    /\ WF_vars(Timeout)
    /\ WF_vars(ClientTick)
    /\ WF_vars(ClientReady)

----------------------------------------------------------------------------
(* The reducer of the specification, and what the ensemble holds.          *)

\* the integer after the last '-' of an election node name
SeqOf(name) == parseInt(Substring(name, LastIndexOf(name, "-") + 1))

\* l lists the elements of the list children in ascending order of their
\* sequence numbers, elements of equal sequence number in the order they
\* have in children
IsSortedBySeq(l, children) ==
    /\ Len(l) = Len(children)
    /\ \E f \in [1..Len(l) -> 1..Len(l)] :
          /\ \A i, j \in 1..Len(l) : f[i] = f[j] => i = j
          /\ \A i \in 1..Len(l) : l[i] = children[f[i]]
          /\ \A i, j \in 1..Len(l) :
                i < j => \/ SeqOf(l[i]) < SeqOf(l[j])
                         \/ SeqOf(l[i]) = SeqOf(l[j]) /\ f[i] < f[j]

\* us is the list children decoded to peer URLs, in that order
IsDecodedInSeqOrder(us, children) ==
    \E l \in SeqsOf({children[i] : i \in 1..Len(children)}) :
        /\ IsSortedBySeq(l, children)
        /\ us = [i \in 1..Len(l) |-> transformPgUrl(l[i])]

\* Reduce(clusterState, actives) of the specification
Reduce(cs, act) ==
    IF ~IsNull(cs) THEN clusterStateToUrls(Val(cs))
    ELSE IF ~IsNull(act) THEN childrenToUrls(Val(act))
    ELSE <<>>

\* the reducer applied to what the ensemble holds
ZkReduce ==
    IF ~IsNull(znodes["state"])
    THEN clusterStateToUrls(JSONParse(Val(Val(znodes["state"]).data)).value)
    ELSE IF ~IsNull(znodes["election"])
         THEN childrenToUrls(
                  CHOOSE l \in SeqsOf(Val(znodes["election"]).children) : TRUE)
         ELSE <<>>

\* nothing of watcher (h, p) is in flight
Idle(h, p) ==
    /\ \A k \in Kinds : watchers[h][p].pend[k] = 0
    /\ watchers[h][p].dataFired = 0
    /\ watchers[h][p].childFired = 0

\* watcher (h, p) has delivered its first view and waits for its watches
Quiescent(h, p) ==
    /\ tickQ = <<>>
    /\ watchers[h][p].started
    /\ watchers[h][p].cbCalled
    /\ Idle(h, p)

\* the view of watcher (h, p) is the node the ensemble holds at p
ViewMatches(h, p) ==
    LET x == watchers[h][p]
    IN  IF IsNull(znodes[p])
        THEN IsNull(x.currStat) /\ IsNull(x.currData) /\ IsNull(x.currChildren)
        ELSE /\ x.currStat = Some(Val(znodes[p]).version)
             /\ x.currData = Val(znodes[p]).data
             /\ ~IsNull(x.currChildren)
             /\ Val(x.currChildren) \in SeqsOf(Val(znodes[p]).children)

TopologyEmitted == Count(emitted, "topology") > 0

----------------------------------------------------------------------------
(* The claims.                                                             *)

\* C1 (as claimed): between handlers, the published urls are
\* Reduce(clusterState, actives): the state-derived list if clusterState is
\* non-null, else the decoded, sequence-sorted actives, else the empty list.
C1_UrlsAreReduced == urls = Reduce(clusterState, actives)

\* C2: no two consecutive `topology' emissions carry element-wise equal
\* lists, the first emission after `ready' and those after a session reset
\* included.
C2_ConsecutiveTopologiesDiffer ==
    Len(topoLog) = 2 =>
        ~(/\ Len(topoLog[1]) = Len(topoLog[2])
          /\ \A i \in 1..Len(topoLog[1]) : topoLog[1][i] = topoLog[2][i])

\* C2 witness: a second topology emitted by a handler that a watcher of the
\* second session called
C2_Witness ==
    /\ Len(topoLog) = 2
    /\ TopologyEmitted
    /\ last.h = 2

\* C3 (as claimed): with no session loss, a watcher with nothing in flight
\* holds the node's actual data, version and children.
C3_QuiescentViewIsActual ==
    \A p \in Paths : Quiescent(1, p) => ViewMatches(1, p)

\* C4 (as claimed): after a session expiry and reconnect, once both watchers
\* of the new session have delivered and nothing is in flight, the published
\* topology is the reducer applied to what ZooKeeper holds.
C4_SteadyStateAfterReconnect ==
    (/\ zk = 2
     /\ ~closed
     /\ \A p \in Paths : Quiescent(2, p)
     /\ \A p \in Paths : Idle(1, p))
    => urls = ZkReduce

\* C5: `ready' is emitted before the first `topology', and no `topology' is
\* emitted while _inited is false.
C5_ReadyBeforeTopology ==
    /\ topoLog # <<>> => readyCount >= 1
    /\ \A i \in 1..Len(emitted) :
          emitted[i].ev = "topology" => emitted[i].inited

\* C5 witness: ready and two topologies have been emitted
C5_Witness == readyCount = 1 /\ Len(topoLog) = 2

\* C6: over all sessions `ready' is emitted exactly once: never twice, and
\* once emitReady has run and its deferred emission is done, once; _inited
\* is never cleared.
C6_ReadyExactlyOnce ==
    /\ readyCount <= 1
    /\ emitReadyCalled => inited
    /\ readyCount = 1 => emitReadyCalled
    /\ (emitReadyCalled /\ \A i \in 1..Len(tickQ) : tickQ[i].ev # "ready")
          => readyCount = 1

\* C6 witness: the watch setup of a second session has succeeded too
C6_Witness ==
    /\ readyCount = 1
    /\ zk = 2
    /\ watchers[1]["election"].cbCalled
    /\ watchers[2]["election"].cbCalled

\* C7: while clusterState is non-null, handleActive updates actives, emits
\* nothing and leaves urls as they were.
C7_StateTrumpsActives ==
    [][(last'.op = "handleActive" /\ ~IsNull(clusterState))
        => /\ actives' = last'.res.children
           /\ urls' = urls
           /\ clusterState' = clusterState
           /\ emitted' = <<>>]_vars

\* C7 witness: handleActive was given children that decode to another list
\* than the published one, after init, with a cluster state present
C7_Witness ==
    /\ last.op = "handleActive"
    /\ inited
    /\ ~IsNull(clusterState)
    /\ ~IsNull(last.res.children)
    /\ childrenToUrls(Val(last.res.children)) # urls

\* the step is a call of handleClusterState with no data, after init
StateDeleted ==
    /\ last'.op = "handleClusterState"
    /\ IsNull(last'.res.data)
    /\ inited

\* C8 (as claimed): when the state node is deleted after init while actives
\* is non-null, one `topology' is emitted, whose value is the decoded,
\* sequence-sorted list of the current actives.
C8_DeleteEmitsActives ==
    [][(/\ StateDeleted
        /\ ~IsNull(clusterState)
        /\ ~IsNull(actives)
        /\ actives # Some(<<>>))
        => /\ Len(emitted') = 1
           /\ emitted'[1].ev = "topology"
           /\ IsDecodedInSeqOrder(emitted'[1].arg, Val(actives))]_vars

\* C8 (amended): ... urls becomes the decoded, sequence-sorted list of the
\* current actives, and one `topology' with that value is emitted unless the
\* list is element-wise equal to the urls published before, in which case
\* nothing is emitted.
C8_DeleteRevertsToActives ==
    [][(StateDeleted /\ ~IsNull(actives))
        => /\ IsNull(clusterState')
           /\ IsDecodedInSeqOrder(urls', Val(actives))
           /\ emitted' = IF urls' = urls THEN <<>>
                         ELSE <<Event("topology", urls', TRUE)>>]_vars

\* C8 witness: the deletion of the state node has emitted the list of three
\* actives, which handleActive was given while the state was present
C8_Witness ==
    /\ last.op = "handleClusterState"
    /\ IsNull(last.res.data)
    /\ inited
    /\ ~IsNull(actives)
    /\ Len(Val(actives)) = 3
    /\ TopologyEmitted
    /\ emitted[1].arg = urls

\* C9 (as claimed): when the state node is deleted after init and there are
\* no actives (the election directory is empty or absent), the published
\* topology becomes the empty list, emitted if it was not empty before.
C9_DeleteWithoutActivesEmitsEmpty ==
    [][(/\ StateDeleted
        /\ ~IsNull(clusterState)
        /\ IsNull(actives) \/ actives = Some(<<>>))
        => /\ urls' = <<>>
           /\ urls # <<>> => emitted' = <<Event("topology", <<>>, TRUE)>>]_vars

\* C10: with clusterState null, handleActive publishes the children decoded
\* in ascending order of the integer after the last '-', ties in input
\* order, whatever the order the children arrive in; what it emits is that
\* list.
C10_ActivesInSeqOrder ==
    (/\ last.op = "handleActive"
     /\ IsNull(clusterState)
     /\ ~IsNull(last.res.children))
    => /\ IsDecodedInSeqOrder(urls, Val(last.res.children))
       /\ \A i \in 1..Len(emitted) :
             emitted[i].ev = "topology" => emitted[i].arg = urls

\* C10 witness: three children, two of them with the same sequence number,
\* arrived out of order and were emitted
C10_Witness ==
    /\ last.op = "handleActive"
    /\ IsNull(clusterState)
    /\ ~IsNull(last.res.children)
    /\ Len(Val(last.res.children)) = 3
    /\ SeqOf(Val(last.res.children)[1]) > SeqOf(Val(last.res.children)[3])
    /\ \E i, j \in 1..3 :
          i # j /\ SeqOf(Val(last.res.children)[i])
                     = SeqOf(Val(last.res.children)[j])
    /\ TopologyEmitted

\* us lists the peers of the document cs: the primary if present, the sync
\* if present, then the asyncs in declared order
IsStateOrder(us, cs) ==
    LET np == IF IsNull(cs.primary) THEN 0 ELSE 1
        ns == IF IsNull(cs.sync) THEN 0 ELSE 1
        na == IF IsNull(cs.async) THEN 0 ELSE Len(Val(cs.async))
    IN  /\ Len(us) = np + ns + na
        /\ np = 1 => us[1] = Val(cs.primary).pgUrl
        /\ ns = 1 => us[np + 1] = Val(cs.sync).pgUrl
        /\ \A i \in 1..na : us[np + ns + i] = Val(cs.async)[i].pgUrl

\* the last step called handleClusterState with a document that parses
ParsedStateHandled ==
    /\ last.op = "handleClusterState"
    /\ ~IsNull(last.res.data)
    /\ JSONParse(Val(last.res.data)).ok

\* C11: after handleClusterState with a document that parses, the published
\* urls are the primary's pgUrl if present, the sync's if present, then the
\* asyncs' in declared order, whatever the actives are; with a primary
\* present element 0 is primary.pgUrl; an emitted topology is that list.
C11_StateDocumentOrder ==
    ParsedStateHandled =>
        LET cs == JSONParse(Val(last.res.data)).value
        IN  /\ clusterState = Some(cs)
            /\ IsStateOrder(urls, cs)
            /\ ~IsNull(cs.primary) => urls[1] = Val(cs.primary).pgUrl
            /\ \A i \in 1..Len(emitted) :
                  emitted[i].ev = "topology" => emitted[i].arg = urls

\* C11 witness: a document with primary, sync and two asyncs, the second
\* async being the sync's address, was published over non-empty actives
C11_Witness ==
    /\ ParsedStateHandled
    /\ Val(last.res.data) = "B2131"
    /\ ~IsNull(actives)
    /\ Val(actives) # <<>>
    /\ TopologyEmitted
    /\ urls = <<u(ip2), u(ip1), u(ip3), u(ip1)>>

\* the URL of the part of an election node name before its last '-':
\* tcp://<host>, or tcp://<host>:<pgPort> when colon fields follow the host
DecodeBeforeLastDash(name) ==
    LET prefix == SubSeq(name, 1, LastIndexOf(name, "-") - 1)
        colon == IndexOf(prefix, ":")
        host == IF colon = 0 THEN prefix ELSE SubSeq(prefix, 1, colon - 1)
        rest == SubSeq(prefix, colon + 1, Len(prefix))
        colon2 == IndexOf(rest, ":")
        port == IF colon2 = 0 THEN rest ELSE SubSeq(rest, 1, colon2 - 1)
    IN  IF colon = 0 THEN <<"tcp://">> \o host
        ELSE <<"tcp://">> \o host \o <<":">> \o port

\* C12 (as claimed): every election node name handleActive publishes is
\* decoded from the part before its LAST '-', hosts holding a '-' included.
C12_DecodesBeforeLastDash ==
    (/\ last.op = "handleActive"
     /\ IsNull(clusterState)
     /\ ~IsNull(last.res.children))
    => \E l \in SeqsOf({Val(last.res.children)[i] :
                           i \in 1..Len(Val(last.res.children))}) :
          /\ IsSortedBySeq(l, Val(last.res.children))
          /\ urls = [i \in 1..Len(l) |-> DecodeBeforeLastDash(l[i])]

\* C13: with no state node and no election children, the first topology
\* emitted after `ready' is the empty list, and it is the only one: creating
\* (or removing) the empty election directory emits no topology.
C13_EmptyEnsembleEmitsEmptyOnce ==
    /\ Len(topoLog) <= 1
    /\ topoLog # <<>> => topoLog[1] = <<>>
    /\ (readyCount = 1 /\ tickQ = <<>>) => topoLog = <<(<<>>)>>

\* C13 witness: after ready and the empty topology, the election directory
\* was created and handleActive was called with its empty children list
C13_Witness ==
    /\ readyCount = 1
    /\ topoLog = <<(<<>>)>>
    /\ ~IsNull(znodes["election"])
    /\ last.op = "handleActive"
    /\ last.res.children = Some(<<>>)
    /\ emitted = <<>>
    /\ Quiescent(1, "election")

\* C14 (as claimed): once close() has been called the client issues no
\* ZooKeeper operation: no handle is created or connected, and no getData,
\* getChildren or exists request is sent.
C14_NoZkAfterClose ==
    [][closed =>
        /\ \A h \in Handles :
              /\ handles'[h].created => handles[h].created
              /\ handles'[h].connected => handles[h].connected
        /\ \A h \in Handles, p \in Paths, k \in Kinds :
              watchers'[h][p].pend[k] <= watchers[h][p].pend[k]]_vars

\* C15: close() latches closed and emits `close' exactly once: closed is
\* never reset, the call that sets it emits one `close', and no step taken
\* once closed is set (a further call of close() included) emits `close'.
C15_CloseLatchedOnce ==
    [][/\ closed => closed'
       /\ (~closed /\ closed')
             => Count(emitted', "close") = 1 /\ last'.op = "close"
       /\ (closed /\ obsVars' # obsVars) => Count(emitted', "close") = 0]_vars

\* C15 witness: close() called again on a closed client that had created a
\* second handle, and nothing was emitted
C15_Witness ==
    /\ closed
    /\ zk = 2
    /\ last.op = "close"
    /\ emitted = <<>>

\* the step is a call of handleClusterState with data that is not JSON
MalformedStateHandled ==
    /\ last'.op = "handleClusterState"
    /\ ~IsNull(last'.res.data)
    /\ ~JSONParse(Val(last'.res.data)).ok

\* C16 (as claimed): on data that is not parseable JSON handleClusterState
\* emits `error' and no topology and leaves clusterState, actives and urls
\* as they were; the error is fatal for the client: `error' is emitted once.
C16_MalformedStateIsFatal ==
    [][MalformedStateHandled
        => /\ emitted' = <<Event("error", <<>>, inited)>>
           /\ clusterState' = clusterState
           /\ actives' = actives
           /\ urls' = urls
           /\ errorCount' <= 1]_vars

----------------------------------------------------------------------------
(* The PrimaryResolver's events.                                           *)

\* the resolver's events of one change from the record old to the record
\* new: added(new.key, new), then removed(old.key) if there was an old one
ChangeEvents(old, new) ==
    <<[ev |-> "added", key |-> Val(new).key, rec |-> new]>>
    \o (IF IsNull(old) THEN <<>>
        ELSE <<[ev |-> "removed", key |-> Val(old).key, rec |-> Null]>>)

\* one step of the resolver, seen through what it holds and what it emits
AddedBeforeRemoved ==
    LET old == mpr.primary
        new == mpr'.primary
        out == mpr'.out
    IN  /\ Len(new) <= 1
        /\ (new # old /\ ~IsNull(new)) => out = ChangeEvents(old, new)
        /\ mpr' # mpr =>
              \A i \in 1..Len(out) :
                 out[i].ev = "removed" =>
                    /\ ~IsNull(old)
                    /\ out[i].key = Val(old).key
                    /\ i > 1
                    /\ out[i - 1].ev = "added"

\* C17: whenever the resolver comes to hold a new primary record it emits
\* added(new.key, new) first and removed(old.key) second, old being the
\* record held just before; removed is emitted only if there was such a
\* record, and only after an added; the resolver holds at most one record.
C17_AddedBeforeRemoved == [][AddedBeforeRemoved]_vars

\* a change of primary has replaced a record: added and removed emitted
C17_Witness ==
    /\ Len(mpr.out) = 2
    /\ mpr.out[2].ev = "removed"
    /\ ~IsNull(mpr.previous)
    /\ mpr.out[2].key = Val(mpr.previous).key

\* the step is the resolver's 'topology' listener running to its end
TopologyHandled ==
    /\ mpr.state = "running"
    /\ mpr.thrown = ""
    /\ mpr'.thrown = ""
    /\ last'.op = "emit"
    /\ Len(emitted') = 1
    /\ emitted'[1].ev = "topology"

\* what a handled topology does to the record; judged(primary) tells for
\* which first URLs, as parsed, the step is looked at
RecordFollows(judged(_)) ==
    LET primary == urlParse(emitted'[1].arg[1])
        old == mpr.primary
        new == mpr'.primary
        same == /\ ~IsNull(old)
                /\ Val(old).name = "primary"
                /\ Val(old).address = primary.hostname
                /\ Val(old).port = portInt(primary.port)
    IN  (TopologyHandled /\ judged(primary)) =>
           /\ ~IsNull(new)
           /\ Val(new).address = primary.hostname
           /\ Val(new).port = portInt(primary.port)
           /\ IF same
              THEN new = old /\ mpr'.keys = mpr.keys /\ mpr'.out = <<>>
              ELSE /\ mpr'.keys = mpr.keys + 1
                   /\ Val(new).key = mpr'.keys
                   /\ mpr'.out # <<>>
                   /\ mpr'.out[1] = [ev |-> "added", key |-> Val(new).key,
                                     rec |-> new]

AnyUrl(primary) == TRUE

HasPort(primary) == ~IsNull(primary.port)

\* C18: after each topology handled in state running the record held has
\* the host and port of urls[0]; if name, address and port are those of the
\* record held before, nothing changes and nothing is emitted; otherwise a
\* fresh key is assigned and added is emitted.
C18_RecordFollowsFirstUrl == [][RecordFollows(AnyUrl)]_vars

\* the same for topologies whose first URL names a port
C18_RecordFollowsFirstUrlWithPort == [][RecordFollows(HasPort)]_vars

\* a topology whose primary is the one held, port included, was ignored
C18_Witness ==
    /\ mpr.state = "running"
    /\ last.op = "emit"
    /\ Len(emitted) = 1
    /\ emitted[1].ev = "topology"
    /\ mpr.out = <<>>
    /\ ~IsNull(mpr.primary)
    /\ Val(mpr.primary).port # NaN
    /\ Len(topoLog) = 2
    /\ topoLog[1] # <<>>
    /\ topoLog[2] # <<>>
    /\ topoLog[1][1] = topoLog[2][1]

\* C19: in state running the resolver's 'topology' listener handles every
\* topology the client emits, the empty one included: mod_url.parse and the
\* two assertions on urls[0] never throw.
C19_EveryTopologyHandled == mpr.thrown \notin {"TypeError", "AssertionError"}

\* C20: a resolver in state stopped holds no Manatee (mpr_manatee is null)
\* and the Manatee it created, if any, has been closed and has emitted
\* 'close', whether stop() was called in state running or in state failed.
C20_StoppedHoldsNoClient ==
    mpr.state = "stopped" => ~mpr.manatee /\ (mpr.starts > 0 => closed)

\* the same for stop() called in state running only
C20_StoppedFromRunningHoldsNoClient ==
    (mpr.state = "stopped" /\ last.op = "stop" /\ emitted # <<>>) =>
       /\ ~mpr.manatee
       /\ closed
       /\ emitted = <<Event("close", <<>>, inited)>>

----------------------------------------------------------------------------
(* The PrimaryResolver's state machine.                                    *)

\* the client's events of the step just taken hold one named ev
Emitted(ev) == \E i \in 1..Len(emitted') : emitted'[i].ev = ev

\* One step of the resolver's FSM.  state_stopping calls close(), which
\* emits 'close' before it returns, so running -> stopping -> stopped is one
\* step of the program.
FsmStep ==
    LET a == mpr.state
        b == mpr'.state
    IN  /\ a # b =>
              \/ a = "stopped" /\ b = "starting" /\ last'.op = "start"
              \/ a = "starting" /\ b = "running" /\ Emitted("ready")
              \/ /\ a \in {"starting", "running"}
                 /\ b = "failed"
                 /\ Emitted("error")
                 /\ ~IsNull(mpr'.lastError)
                 /\ mpr'.lastError # mpr.lastError
              \/ a = "failed" /\ b = "starting" /\ last'.op = "timeout"
              \/ a = "failed" /\ b = "stopped" /\ last'.op = "stop"
              \/ /\ a = "running"
                 /\ b = "stopped"
                 /\ last'.op = "stop"
                 /\ Emitted("close")
        /\ (last'.op = "start" /\ mpr' # mpr) => a = "stopped"
        /\ (last'.op = "stop" /\ mpr' # mpr) => a \in {"running", "failed"}

\* C21: the resolver starts in stopped and moves only stopped -> starting
\* (start), starting -> running (ready), starting or running -> failed
\* (error, kept as lastError), failed -> starting (timer), failed -> stopped
\* (stop), running -> stopping -> stopped (stop, then the client's close);
\* start() acts only in stopped, stop() only in running or failed.
C21_FsmTransitions == (mpr.state = "stopped") /\ [][FsmStep]_vars

\* the resolver has failed in state running and the timer has restarted it
C21_Witness ==
    /\ mpr.state = "starting"
    /\ last.op = "timeout"
    /\ readyCount > 0
    /\ ~IsNull(mpr.lastError)

\* C22: count() is 0 or 1; list() has count() entries and, if it has one,
\* maps the key of the current primary to the current primary; getLastError()
\* is null as long as the client has emitted no error, and afterwards is the
\* error the client emitted last.
C22_Queries ==
    /\ count(mpr) \in {0, 1}
    /\ Cardinality(DOMAIN list(mpr)) = count(mpr)
    /\ count(mpr) = 1 =>
          /\ DOMAIN list(mpr) = {Val(mpr.primary).key}
          /\ list(mpr)[Val(mpr.primary).key] = mpr.primary
    /\ errorCount = 0 => IsNull(getLastError(mpr))
    /\ (errorCount > 0 /\ mpr.thrown = "") =>
          getLastError(mpr) = Some(errorCount)

\* a primary is listed after a second primary and after an error
C22_Witness ==
    /\ count(mpr) = 1
    /\ ~IsNull(mpr.previous)
    /\ ~IsNull(getLastError(mpr))

----------------------------------------------------------------------------
(* The NodeWatcher's callbacks.                                            *)

\* C23: a NodeWatcher that has been started invokes onReady (the once-
\* wrapped cb) once: with nothing of the watcher in flight any more, no
\* request and no fired watch, cb has been called -- whether the node was
\* there at startup, was absent, or was deleted between the first getData
\* and the first getChildren.
C23_OnReadyOnce ==
    \A h \in Handles, p \in Paths :
       (watchers[h][p].started /\ Idle(h, p)) => watchers[h][p].cbCalled

\* the children chain of watcher (h, p) runs: its one-shot children watch
\* is armed, has fired, or a getChildren is in flight
ChildrenChainRuns(h, p) ==
    \/ watchers[h][p].childWatch
    \/ watchers[h][p].childFired > 0
    \/ watchers[h][p].pend["getChildren"] > 0
    \/ watchers[h][p].pend["getChildrenNoSub"] > 0

\* C24: once the data chain of a watcher has read a node that exists, the
\* children chain runs on it, also when the node was deleted and created
\* again in between: with the watcher at rest on a node it has read, the
\* children watch is armed, so that later children changes reach onChange.
C24_ChildrenChainRestarted ==
    \A p \in Paths :
       (/\ Quiescent(1, p)
        /\ ~IsNull(znodes[p])
        /\ ~IsNull(watchers[1][p].currStat))
       => ChildrenChainRuns(1, p)

\* C25: a transient error on getData or getChildren is retried and leaves
\* no trace: once the watcher is at rest again (nothing in flight, no timer
\* pending) its data watch is armed, so that later changes of the node are
\* delivered, and no 'error' has been emitted.
C25_RetryLeavesNoTrace ==
    /\ errorCount = 0
    /\ \A p \in Paths : Quiescent(1, p) => watchers[1][p].dataWatch

\* C26: a NodeWatcher calls its change callback wat only after it has
\* called cb with the first view, whatever the order of the answers to its
\* reads, of the failed reads and their retries, and of its watches.
C26_NoChangeBeforeReady ==
    \A h \in Handles, p \in Paths : ~watchers[h][p].watBeforeCb

\* a watcher has delivered a change after both first views: its handler,
\* called by the watcher, has emitted a topology of its own
C26_Witness ==
    /\ \A p \in Paths : watchers[1][p].cbCalled
    /\ last.h = 1
    /\ last.op \in {"handleClusterState", "handleActive"}
    /\ TopologyEmitted

----------------------------------------------------------------------------
(* Sessions.                                                               *)

\* C27: once resetZkClient has closed a handle, the watchers started on it
\* put no further request or retry in flight and call neither
\* handleClusterState nor handleActive: only the watchers of the current
\* handle feed the client.
C27_OldWatchersSilent ==
    [][\A h \in Handles :
          handles[h].resetCalled =>
             /\ \A p \in Paths, k \in Kinds :
                   watchers'[h][p].pend[k] <= watchers[h][p].pend[k]
             /\ ~(last' # last /\ last'.h = h)]_vars

\* the number of setupZkClient calls queued with process.nextTick, that of
\* the constructor's init included
SetupsQueued(q) == Len(SelectSeq(q, LAMBDA e : e.fn # "emit"))

\* One step, seen through the once() guards of a session: the guards stay
\* set; a watcher that has delivered its first view is not started anew; a
\* setupZkClient is queued only by the first reset of a handle, one at a
\* time; the current handle changes only to the next one.
SessionStep ==
    /\ \A h \in Handles :
          /\ handles[h].setWatchesCalled => handles'[h].setWatchesCalled
          /\ handles[h].resetCalled => handles'[h].resetCalled
          /\ \A p \in Paths :
                /\ watchers[h][p].started => watchers'[h][p].started
                /\ watchers[h][p].cbCalled => watchers'[h][p].cbCalled
    /\ SetupsQueued(tickQ') > SetupsQueued(tickQ) =>
          /\ SetupsQueued(tickQ') = SetupsQueued(tickQ) + 1
          /\ Cardinality({h \in Handles : /\ ~handles[h].resetCalled
                                          /\ handles'[h].resetCalled}) = 1
    /\ zk' # zk => zk' = zk + 1 /\ SetupsQueued(tickQ') < SetupsQueued(tickQ)

\* C28: in one session setWatches runs at most once, however often
\* 'connected' fires, and resetZkClient at most once, however often
\* 'expired' and 'error' fire: a session has one pair of watchers, which is
\* not started again, and at most one successor.
C28_OncePerSession == [][SessionStep]_vars

\* the first session has been reset once and its successor has set its
\* watches and delivered both first views
C28_Witness ==
    /\ zk = 2
    /\ handles[1].setWatchesCalled
    /\ handles[1].resetCalled
    /\ handles[2].setWatchesCalled
    /\ \A p \in Paths : watchers[2][p].cbCalled

----------------------------------------------------------------------------
(* The PrimaryResolver after a failure.                                    *)

\* one step of the resolver, seen from state failed
FailedStep ==
    /\ (mpr.state # "failed" /\ mpr'.state = "failed") =>
          /\ mpr'.previous = mpr.primary
          /\ IsNull(mpr'.primary)
          /\ mpr'.timer
    /\ (mpr.state = "failed" /\ mpr'.state # "failed") =>
          /\ ~mpr'.timer
          /\ \/ mpr'.state = "starting" /\ last'.op = "timeout"
             \/ mpr'.state = "stopped" /\ last'.op = "stop"
    /\ (last'.op = "timeout" /\ mpr' # mpr) => mpr.state = "failed"
    /\ mpr'.timer => mpr'.state = "failed"

\* C29: on entry to failed the resolver remembers its primary as previous
\* and holds none; it leaves failed for starting when the timer of one
\* second fires, or for stopped when stop() is called first, and then the
\* timer is gone: it causes no transition out of stopped.
C29_FailedBacksOff == [][FailedStep]_vars

\* a resolver that held a primary has failed and was stopped before the
\* timer fired
C29_Witness ==
    /\ mpr.state = "stopped"
    /\ last.op = "stop"
    /\ ~IsNull(mpr.previous)
    /\ IsNull(mpr.primary)
    /\ ~IsNull(mpr.lastError)

\* the resolver has just been restarted by the timer of state failed, and
\* the bound on keys does not keep its client from running
Restarted ==
    /\ mpr.state = "starting"
    /\ last.op = "timeout"
    /\ mpr.thrown = ""
    /\ mpr.keys < MaxKeys

\* C30: a resolver restarted by the timer after a failure does not stay in
\* starting forever: it reaches running again (or, on a new error, failed).
C30_RestartReachesRunning == Restarted ~> (mpr.state # "starting")

----------------------------------------------------------------------------
(* The keys the PrimaryResolver has announced.                             *)

\* the keys of the events ev among the resolver's events out
KeysOf(out, ev) == {out[i].key : i \in {j \in 1..Len(out) : out[j].ev = ev}}

\* one step of the resolver, seen by a listener of 'added' and 'removed'
\* who holds the keys of list() before the step: the keys added by the
\* step join them, the keys removed by it leave them
AnnouncedStep ==
    mpr' # mpr =>
       DOMAIN list(mpr') =
          (DOMAIN list(mpr) \cup KeysOf(mpr'.out, "added"))
             \ KeysOf(mpr'.out, "removed")

\* C31: the keys announced through 'added' and not yet retracted through
\* 'removed' are the keys of list(): none at the start, and every step
\* changes both sets alike, entry to failed and stop/start cycles included.
C31_AnnouncedIsListed == (DOMAIN list(mpr) = {}) /\ [][AnnouncedStep]_vars

\* the same for the steps that do not enter state failed
C31_AnnouncedIsListedUnlessFailed ==
    [][mpr'.state # "failed" => AnnouncedStep]_vars

----------------------------------------------------------------------------
(* The client's events after close().                                      *)

\* C32: once `close' has been emitted the client emits no `ready', no
\* `topology' and no `error': the events of the step that set _closed or
\* of any later step hold none of the three, also when a read sent before
\* close() is answered afterwards.
C32_SilentAfterClose ==
    closed => \A i \in 1..Len(emitted) :
                 emitted[i].ev \notin {"ready", "topology", "error"}

\* the same for the deferred emissions alone: no callback queued with
\* process.nextTick emits after close()
C32_NoDeferredEventAfterClose ==
    (closed /\ last.op = "emit") => emitted = <<>>

\* the same for the watchers alone: no handler called by an answered read
\* emits after close()
C32_NoHandlerEventAfterClose ==
    (closed /\ last.op \in {"handleClusterState", "handleActive"})
       => emitted = <<>>

----------------------------------------------------------------------------
(* The data chain of a NodeWatcher.                                        *)

\* a data watch of watcher (h, p) has fired and the read it triggers is not
\* resolved yet: dataWatchFired is due, its getData(true) is in flight, or
\* the getChildren of the newly-created branch, whose subcb is done, is
DataWatchTriggered(h, p) ==
    /\ watchers[h][p].cbCalled
    /\ \/ watchers[h][p].dataFired > 0
       \/ watchers[h][p].pend["getData"] > 0
       \/ watchers[h][p].pend["getChildren"] > 0

\* the data watch of watcher (h, p) is armed or is being armed by zk.exists
DataWatchArmed(h, p) ==
    \/ watchers[h][p].dataWatch
    \/ watchers[h][p].pend["exists"] > 0

\* the data watches of watcher (h, p): armed, being armed, fired and not
\* yet re-armed
DataWatches(h, p) ==
    (IF watchers[h][p].dataWatch THEN 1 ELSE 0)
    + watchers[h][p].pend["exists"]
    + watchers[h][p].dataFired
    + watchers[h][p].pend["getData"]
    + watchers[h][p].pend["getChildren"]

\* one step seen from the data chain of each watcher of an open client: a
\* fired watch is still being handled after the step or is re-armed by it,
\* and there is never more than one
DataChainStep ==
    \A h \in Handles, p \in Paths :
       /\ (DataWatchTriggered(h, p) /\ ~closed' /\ handles'[h].open)
             => (DataWatchTriggered(h, p)' \/ DataWatchArmed(h, p)')
       /\ DataWatches(h, p)' <= 1

\* C33: every firing of a data watch on an open client leads to the data
\* watch being re-armed once the read it triggers resolves, in every
\* branch of getData, the newly-created branch that reads the children
\* first included (also when that read is answered NO_NODE or fails); a
\* watcher has at most one data watch.
C33_DataWatchRearmed == [][DataChainStep]_vars

\* the same without the reads answered NO_NODE or by a transient error:
\* every read triggered by a fired data watch that is answered with the
\* node re-arms the watch
C33_DataWatchRearmedIfAnswered ==
    [][(\A p \in Paths : (znodes[p] # Null \/ ~watchers[1][p].cbCalled
                            \/ watchers[1][p].pend["getChildren"] = 0)
                         /\ watchers'[1][p].pend["getDataTimer"]
                               <= watchers[1][p].pend["getDataTimer"]
                         /\ watchers'[1][p].pend["getChildrenTimer"]
                               <= watchers[1][p].pend["getChildrenTimer"])
          => DataChainStep]_vars

----------------------------------------------------------------------------
(* The children chain of a NodeWatcher.                                    *)

\* the children chains of watcher (h, p) that are live: the armed children
\* watch, the fired watches whose childrenWatchFired is due, the
\* getChildren in flight, and the retries of a failed getChildren
ChildrenChains(h, p) ==
    (IF watchers[h][p].childWatch THEN 1 ELSE 0)
    + watchers[h][p].childFired
    + watchers[h][p].pend["getChildren"]
    + watchers[h][p].pend["getChildrenNoSub"]
    + watchers[h][p].pend["getChildrenTimer"]

\* C34: a NodeWatcher has at most one live children chain at any time: the
\* data chain does not seed a new one while the children watch of an
\* earlier one is armed, has fired, or is being registered again.
C34_OneChildrenChain ==
    \A h \in Handles, p \in Paths : ChildrenChains(h, p) <= 1

\* the same for the reads alone: a watcher never has two getChildren in
\* flight, one of the chain that re-registers its fired watch and one of
\* the chain the data chain has seeded
C34_OneGetChildrenInFlight ==
    \A h \in Handles, p \in Paths :
       watchers[h][p].pend["getChildren"]
          + watchers[h][p].pend["getChildrenNoSub"] <= 1

============================================================================
